---- MODULE Spec2Model ----
(***************************************************************************)
(* Lab-request state machine of backend/api (models.py, views.py,          *)
(* serializers.py): the persisted LabRequest rows, the request-scoped      *)
(* actions of LabRequestViewSet, the store-level save path and the         *)
(* lab-number generator.                                                   *)
(*                                                                         *)
(* Abstractions:                                                           *)
(*  - a lab number f'LAB-{today}-{count:03d}' is the pair <<today, count>> *)
(*    (the format is injective on the pair);                               *)
(*  - a calendar day is a natural number, created_at is a day plus the     *)
(*    position t of the insert in the order of all inserts;                *)
(*  - the UUID primary key is the position of the insert (never reused);   *)
(*  - collected_samples is the set of the ids of the posted list: the code *)
(*    only ever reads set(collected_samples);                              *)
(*  - a result entry {parameterId, value, flag} is an opaque token;        *)
(*  - a patient id f'P{n:03d}' is the sequence of its decimal digits after *)
(*    the 'P', so that ids compare as the strings they are;                *)
(*  - referred_by, date and updated_at, which no rule reads, are left out; *)
(*  - the 400 responses are named by the error taxonomy of the design      *)
(*    (InvalidTransition, InvalidState, ValidationError); an exception no  *)
(*    view catches (a 500) is named by its class.                          *)
(***************************************************************************)
EXTENDS Integers, Sequences, FiniteSets, TLC

\* ---------------------------------------------------------------- bounds
MaxWorkflowRequests == 1
MaxCreates == 4
MaxDay == 1
MaxTestIds == 2
MaxPatients == 3
MaxPatientNum == 1001

\* ------------------------------------------------------- reference data
\* constants.py AVAILABLE_TESTS (the first two tests) and their sample type
LabTests == {"cbc", "lipid"}
sample_type == [cbc |-> "edta", lipid |-> "serum"]
\* ids a client may post: the catalog plus one id that is no test
TestKeys == LabTests \cup {"zzz"}
\* sample-type ids a client may post: the two required ones and an unrelated one
SampleIds == {"edta", "serum", "urine"}

STATUS_CHOICES == {"REGISTERED", "COLLECTED", "ANALYZED", "VERIFIED"}

STATUS_TRANSITIONS ==
    [REGISTERED |-> {"COLLECTED"},
     COLLECTED  |-> {"ANALYZED"},
     ANALYZED   |-> {"VERIFIED"},
     VERIFIED   |-> {}]

\* ------------------------------------------------------------- inputs
ResultLists == {<< >>, <<"r1">>, <<"r2">>}
ResultMaps == UNION {[K -> ResultLists] : K \in SUBSET TestKeys}
Comments == {"", "c1"}
TestIdLists == UNION {[1..n -> TestKeys] : n \in 0..MaxTestIds}
CollaboratorOutcomes == {"ok", "unconfigured", "timeout", "error"}
Procs == {1, 2}

VARIABLES
    requests,       \* LabRequest table: pk -> row
    request_tests,  \* LabRequest.tests (many-to-many): pk -> set of test ids
    patients,       \* Patient table: id -> row
    today,          \* the calendar day of timezone.now()
    clock,          \* number of inserts so far
    created_days,   \* the day of every insert so far, in order
    assigned_ids,   \* every id Patient.save has given so far
    response,       \* the last completed call: operation, request, outcome
    pc,             \* per worker: "idle", or the step a split call is at
    local           \* per worker: the in-memory instance of a split call

vars == <<requests, request_tests, patients, today, clock, created_days, assigned_ids,
          response, pc, local>>

NoLocal == [op |-> "none"]

Rank(s) ==
    CASE s = "REGISTERED" -> 0
      [] s = "COLLECTED" -> 1
      [] s = "ANALYZED" -> 2
      [] s = "VERIFIED" -> 3

Reply(outcome, inst) == [outcome |-> outcome, inst |-> inst]

\* ------------------------------------------------------------ patient ids
IdWidth == 3

RECURSIVE Digits(_)
Digits(n) == IF n < 10 THEN <<n>> ELSE Append(Digits(n \div 10), n % 10)

RECURSIVE Zeros(_)
Zeros(k) == IF k <= 0 THEN << >> ELSE <<0>> \o Zeros(k - 1)

\* f'P{new_num:03d}': at least IdWidth digits, zero-padded on the left
format_id(new_num) == Zeros(IdWidth - Len(Digits(new_num))) \o Digits(new_num)

\* int(last_patient.id[1:])
RECURSIVE parse_id(_)
parse_id(id) ==
    IF Len(id) = 0 THEN 0
    ELSE 10 * parse_id(SubSeq(id, 1, Len(id) - 1)) + id[Len(id)]

\* the order of the database on the CharField primary key: character by
\* character, a proper prefix first
str_less(a, b) ==
    \E i \in 1..(Len(a) + 1) :
        /\ i <= Len(b)
        /\ \A j \in 1..(i - 1) : a[j] = b[j]
        /\ (i <= Len(a) => a[i] < b[i])

P001 == format_id(1)
P002 == format_id(2)

\* ------------------------------------------------------ pre_save signals
\* dict.get(key, 0)
get(d, key) == IF key \in DOMAIN d THEN d[key] ELSE 0

\* d[key] = value
put(d, key, value) == [k \in (DOMAIN d) \cup {key} |-> IF k = key THEN value ELSE d[k]]

Max(a, b) == IF a >= b THEN a ELSE b

\* (discount_amount / total_amount) * 100; the amounts of the model are drawn
\* so that the quotient is a whole number
discount_percent(total_amount, discount_amount) ==
    IF total_amount > 0 THEN (discount_amount * 100) \div total_amount ELSE 0

\* signals.py validate_and_recalculate_payment
validate_and_recalculate_payment_unclamped(instance) ==
    IF DOMAIN instance.payment = {}
    THEN instance
    ELSE LET payment == instance.payment
             net_payable == get(payment, "totalAmount") - get(payment, "discountAmount")
             balance_due == net_payable - get(payment, "paidAmount")
         IN  [instance EXCEPT !.payment =
                 put(put(payment, "netPayable", net_payable), "balanceDue", balance_due)]

validate_and_recalculate_payment(instance) ==
    IF DOMAIN instance.payment = {}
    THEN instance
    ELSE LET payment == instance.payment
             total_amount == get(payment, "totalAmount")
             discount_amount == get(payment, "discountAmount")
             paid_amount == get(payment, "paidAmount")
             net_payable == Max(0, total_amount - discount_amount)
             balance_due == Max(0, net_payable - paid_amount)
             p1 == put(payment, "netPayable", net_payable)
             p2 == put(p1, "balanceDue", balance_due)
             p3 == IF "discountPercent" \notin DOMAIN p2
                   THEN put(p2, "discountPercent", discount_percent(total_amount, discount_amount))
                   ELSE p2
         IN  [instance EXCEPT !.payment = p3]

\* signals.py populate_patient_name
populate_patient_name(instance, patient_table) ==
    IF instance.patient_name = "" /\ instance.patient \in DOMAIN patient_table
    THEN [instance EXCEPT !.patient_name = patient_table[instance.patient].name]
    ELSE instance

pre_save(instance, patient_table) ==
    validate_and_recalculate_payment(populate_patient_name(instance, patient_table))

\* ------------------------------------------------------ store write path
\* LabRequest.save on a row that has its lab_no: the pre_save signals run and
\* super().save() writes every column of the in-memory instance;
\* full_clean()/clean() is not called.
save(db, patient_table, pk, inst) == [db EXCEPT ![pk] = pre_save(inst, patient_table)]

\* LabRequest.save, lab number generation: the rows created since today_start
count_today(db, day) ==
    Cardinality({pk \in DOMAIN db : db[pk].created_at.day >= day}) + 1

\* lab_no = models.CharField(unique=True): the store refuses an insert whose
\* lab number a row already has; this variant accepts it
lab_no_free_unchecked(db, lab_no) == TRUE

lab_no_free(db, lab_no) == \A pk \in DOMAIN db : db[pk].lab_no # lab_no

\* the row a successful insert adds
insert(db, pk, inst) == [k \in (DOMAIN db) \cup {pk} |-> IF k = pk THEN inst ELSE db[k]]

\* the rows left by a delete
delete(db, pk) == [k \in (DOMAIN db) \ {pk} |-> db[k]]

\* -------------------------------------------- request-scoped handlers
\* Each handler is the body of the view between get_object() and the
\* response: from the in-memory instance and the request's tests to the
\* outcome and the instance handed to save().

\* views.py collect without its status guard
collect_handler_unguarded(lab_request, tests, collected_samples, phlebotomy_comments) ==
    LET required_sample_types == {sample_type[t] : t \in tests}
        missing_samples == required_sample_types \ collected_samples
    IN  IF missing_samples # {}
        THEN Reply("ValidationError", lab_request)
        ELSE Reply("ok", [lab_request EXCEPT
                              !.collected_samples = collected_samples,
                              !.phlebotomy_comments = phlebotomy_comments,
                              !.status = "COLLECTED"])

\* views.py collect accepting only exactly the required sample types
collect_handler_exact(lab_request, tests, collected_samples, phlebotomy_comments) ==
    IF lab_request.status \notin {"REGISTERED"}
    THEN Reply("InvalidTransition", lab_request)
    ELSE IF {sample_type[t] : t \in tests} # collected_samples
    THEN Reply("ValidationError", lab_request)
    ELSE Reply("ok", [lab_request EXCEPT
                          !.collected_samples = collected_samples,
                          !.phlebotomy_comments = phlebotomy_comments,
                          !.status = "COLLECTED"])

collect_handler(lab_request, tests, collected_samples, phlebotomy_comments) ==
    IF lab_request.status \notin {"REGISTERED"}
    THEN Reply("InvalidTransition", lab_request)
    ELSE LET required_sample_types == {sample_type[t] : t \in tests}
             missing_samples == required_sample_types \ collected_samples
         IN  IF missing_samples # {}
             THEN Reply("ValidationError", lab_request)
             ELSE Reply("ok", [lab_request EXCEPT
                                   !.collected_samples = collected_samples,
                                   !.phlebotomy_comments = phlebotomy_comments,
                                   !.status = "COLLECTED"])

\* current_results[test_id] = results
set_result(current_results, test_id, results) ==
    [k \in (DOMAIN current_results) \cup {test_id} |->
        IF k = test_id THEN results ELSE current_results[k]]

\* Only advance to ANALYZED if we're not already past it
advance_to_analyzed(status) ==
    IF status \in {"REGISTERED", "COLLECTED"} THEN "ANALYZED" ELSE status

\* views.py update_results without the check that the test is part of the request
update_results_handler_any_test(lab_request, tests, test_id, results) ==
    IF lab_request.status = "VERIFIED"
    THEN Reply("InvalidState", lab_request)
    ELSE Reply("ok", [lab_request EXCEPT
                          !.results = set_result(lab_request.results, test_id, results),
                          !.status = advance_to_analyzed(lab_request.status)])

\* views.py update_results without its VERIFIED guard
update_results_handler_unguarded(lab_request, tests, test_id, results) ==
    IF test_id \notin tests
    THEN Reply("ValidationError", lab_request)
    ELSE Reply("ok", [lab_request EXCEPT
                          !.results = set_result(lab_request.results, test_id, results),
                          !.status = advance_to_analyzed(lab_request.status)])

\* views.py update_results storing the posted list as the whole results map
update_results_handler_replacing(lab_request, tests, test_id, results) ==
    IF lab_request.status = "VERIFIED"
    THEN Reply("InvalidState", lab_request)
    ELSE IF test_id \notin tests
    THEN Reply("ValidationError", lab_request)
    ELSE Reply("ok", [lab_request EXCEPT
                          !.results = set_result(<< >>, test_id, results),
                          !.status = advance_to_analyzed(lab_request.status)])

update_results_handler(lab_request, tests, test_id, results) ==
    IF lab_request.status = "VERIFIED"
    THEN Reply("InvalidState", lab_request)
    ELSE IF test_id \notin tests
    THEN Reply("ValidationError", lab_request)
    ELSE Reply("ok", [lab_request EXCEPT
                          !.results = set_result(lab_request.results, test_id, results),
                          !.status = advance_to_analyzed(lab_request.status)])

\* views.py update_all_results merging the posted map into the stored one
update_all_results_handler_merging(lab_request, tests, results) ==
    IF lab_request.status = "VERIFIED"
    THEN Reply("InvalidState", lab_request)
    ELSE IF ~((DOMAIN results) \subseteq tests)
    THEN Reply("ValidationError", lab_request)
    ELSE Reply("ok", [lab_request EXCEPT
                          !.results = results @@ lab_request.results,
                          !.status = advance_to_analyzed(lab_request.status)])

update_all_results_handler(lab_request, tests, results) ==
    IF lab_request.status = "VERIFIED"
    THEN Reply("InvalidState", lab_request)
    ELSE IF ~((DOMAIN results) \subseteq tests)
    THEN Reply("ValidationError", lab_request)
    ELSE Reply("ok", [lab_request EXCEPT
                          !.results = results,
                          !.status = advance_to_analyzed(lab_request.status)])

\* update_comment has no status check
update_comment_handler(lab_request, tests, comments) ==
    Reply("ok", [lab_request EXCEPT !.comments = comments])

\* views.py verify without the check that each test has a result entry
verify_handler_accepting_empty(lab_request, tests, results) ==
    IF lab_request.status = "VERIFIED"
    THEN Reply("InvalidTransition", lab_request)
    ELSE IF tests # DOMAIN results
    THEN Reply("ValidationError", lab_request)
    ELSE Reply("ok", [lab_request EXCEPT !.results = results, !.status = "VERIFIED"])

\* views.py verify accepting results for a part of the tests
verify_handler_partial(lab_request, tests, results) ==
    IF lab_request.status = "VERIFIED"
    THEN Reply("InvalidTransition", lab_request)
    ELSE IF ~((DOMAIN results) \subseteq tests)
    THEN Reply("ValidationError", lab_request)
    ELSE IF \E test_id \in DOMAIN results : Len(results[test_id]) = 0
    THEN Reply("ValidationError", lab_request)
    ELSE Reply("ok", [lab_request EXCEPT !.results = results, !.status = "VERIFIED"])

verify_handler(lab_request, tests, results) ==
    IF lab_request.status = "VERIFIED"
    THEN Reply("InvalidTransition", lab_request)
    ELSE IF tests # DOMAIN results
    THEN Reply("ValidationError", lab_request)
    ELSE IF \E test_id \in tests : Len(results[test_id]) = 0
    THEN Reply("ValidationError", lab_request)
    ELSE Reply("ok", [lab_request EXCEPT !.results = results, !.status = "VERIFIED"])

\* AIService.analyze_lab_results: the generated text, or the message that
\* stands for the collaborator's failure; it never raises
analyze_lab_results(collaborator) ==
    CASE collaborator = "unconfigured" -> "AI interpretation is not available."
      [] collaborator = "timeout" -> "The AI interpretation request timed out."
      [] collaborator = "error" -> "Unable to generate AI interpretation at this time."
      [] collaborator = "ok" -> "generated interpretation"

\* interpret letting a failure of the collaborator reach the caller
interpret_handler_raising(lab_request, tests, collaborator) ==
    IF collaborator # "ok"
    THEN Reply("ServerError", lab_request)
    ELSE Reply("ok", [lab_request EXCEPT !.ai_interpretation = analyze_lab_results(collaborator)])

\* interpret refusing a verified request
interpret_handler_guarded(lab_request, tests, collaborator) ==
    IF lab_request.status = "VERIFIED"
    THEN Reply("InvalidState", lab_request)
    ELSE Reply("ok", [lab_request EXCEPT !.ai_interpretation = analyze_lab_results(collaborator)])

interpret_handler(lab_request, tests, collaborator) ==
    Reply("ok", [lab_request EXCEPT !.ai_interpretation = analyze_lab_results(collaborator)])


\* ------------------------------------------------------------- Create
Range(seq) == {seq[i] : i \in 1..Len(seq)}

\* validate_test_ids alone, without the count check of validate
create_validation_nonempty(test_ids) ==
    IF Len(test_ids) = 0 THEN "ValidationError" ELSE "ok"

\* LabRequestCreateSerializer.validate_test_ids and .validate
create_validation(test_ids) ==
    IF Len(test_ids) = 0
    THEN "ValidationError"
    ELSE IF Cardinality(Range(test_ids) \cap LabTests) # Len(test_ids)
    THEN "ValidationError"
    ELSE "ok"

\* validate_payment returning the posted object as it is
validate_payment_trusting(value) == value

\* LabRequestCreateSerializer.validate_payment
validate_payment(value) ==
    LET total_amount == get(value, "totalAmount")
        discount_amount == get(value, "discountAmount")
        paid_amount == get(value, "paidAmount")
        net_payable == Max(0, total_amount - discount_amount)
        balance_due == Max(0, net_payable - paid_amount)
    IN  put(put(put(value, "netPayable", net_payable), "balanceDue", balance_due),
            "discountPercent", discount_percent(total_amount, discount_amount))

\* LabRequest.objects.create(patient=..., payment=...) up to the INSERT:
\* the field defaults, the lab number of LabRequest.save and the pre_save signals
new_lab_request(db, patient_table, day, patient, payment) ==
    pre_save([lab_no |-> <<day, count_today(db, day)>>,
              patient |-> patient,
              patient_name |-> "",
              created_at |-> [day |-> 0, t |-> 0],
              status |-> "REGISTERED",
              results |-> << >>,
              payment |-> payment,
              comments |-> "",
              ai_interpretation |-> "",
              collected_samples |-> {},
              phlebotomy_comments |-> ""],
             patient_table)

AllIdle == \A p \in Procs : pc[p] = "idle"

Respond(op, pk, outcome) == response' = [op |-> op, pk |-> pk, outcome |-> outcome]

\* Create checking the test ids only after the INSERT
create_validating_late(patient, test_ids, payment, max_rows) ==
    /\ AllIdle
    /\ LET valid == create_validation(test_ids)
           inst == new_lab_request(requests, patients, today, patient, validate_payment(payment))
           pk == clock + 1
       IN  IF patient \notin DOMAIN patients
           THEN Respond("create", 0, "DoesNotExist") /\ UNCHANGED <<requests, request_tests, clock, created_days>>
           ELSE IF ~lab_no_free(requests, inst.lab_no)
           THEN Respond("create", 0, "IntegrityError") /\ UNCHANGED <<requests, request_tests, clock, created_days>>
           ELSE /\ Cardinality(DOMAIN requests) < max_rows
                /\ clock < MaxCreates
                /\ requests' = insert(requests, pk,
                                      [inst EXCEPT !.created_at = [day |-> today, t |-> pk]])
                /\ request_tests' = insert(request_tests, pk, Range(test_ids) \cap LabTests)
                /\ clock' = pk
                /\ created_days' = Append(created_days, today)
                /\ Respond("create", IF valid = "ok" THEN pk ELSE 0, valid)
    /\ UNCHANGED <<patients, today, assigned_ids, pc, local>>

\* LabRequestViewSet.create, run without interruption.  max_rows caps the table.
create(patient, test_ids, payment, max_rows) ==
    /\ AllIdle
    /\ LET valid == create_validation(test_ids)
           inst == new_lab_request(requests, patients, today, patient, validate_payment(payment))
           pk == clock + 1
       IN  IF valid # "ok"
           THEN Respond("create", 0, valid) /\ UNCHANGED <<requests, request_tests, clock, created_days>>
           ELSE IF patient \notin DOMAIN patients
           THEN \* Patient.DoesNotExist is not caught
                Respond("create", 0, "DoesNotExist") /\ UNCHANGED <<requests, request_tests, clock, created_days>>
           ELSE IF ~lab_no_free(requests, inst.lab_no)
           THEN \* IntegrityError is not caught
                Respond("create", 0, "IntegrityError") /\ UNCHANGED <<requests, request_tests, clock, created_days>>
           ELSE /\ Cardinality(DOMAIN requests) < max_rows
                /\ clock < MaxCreates
                /\ requests' = insert(requests, pk,
                                      [inst EXCEPT !.created_at = [day |-> today, t |-> pk]])
                /\ request_tests' = insert(request_tests, pk, Range(test_ids))
                /\ clock' = pk
                /\ created_days' = Append(created_days, today)
                /\ Respond("create", pk, "ok")
    /\ UNCHANGED <<patients, today, assigned_ids, pc, local>>

\* ------------------------------------------- request-scoped actions, atomic
\* self.get_object() raises Http404 when no row has the key
NotFound == Reply("NotFound", NoLocal)

\* get_object(), the handler (its reply is h) and save() as one step
Call(op, r, h) ==
    /\ AllIdle
    /\ Respond(op, r, h.outcome)
    /\ requests' = IF h.outcome = "ok" THEN save(requests, patients, r, h.inst) ELSE requests
    /\ UNCHANGED <<request_tests, patients, today, assigned_ids, clock, created_days, pc, local>>

collect(r, collected_samples, phlebotomy_comments) ==
    Call("collect", r,
         IF r \in DOMAIN requests
         THEN collect_handler(requests[r], request_tests[r], collected_samples, phlebotomy_comments)
         ELSE NotFound)

update_results(r, test_id, results) ==
    Call("update_results", r,
         IF r \in DOMAIN requests
         THEN update_results_handler(requests[r], request_tests[r], test_id, results)
         ELSE NotFound)

update_all_results(r, results) ==
    Call("update_all_results", r,
         IF r \in DOMAIN requests
         THEN update_all_results_handler(requests[r], request_tests[r], results)
         ELSE NotFound)

update_comment(r, comments) ==
    Call("update_comment", r,
         IF r \in DOMAIN requests
         THEN update_comment_handler(requests[r], request_tests[r], comments)
         ELSE NotFound)

verify(r, results) ==
    Call("verify", r,
         IF r \in DOMAIN requests
         THEN verify_handler(requests[r], request_tests[r], results)
         ELSE NotFound)

interpret(r, collaborator) ==
    Call("interpret", r,
         IF r \in DOMAIN requests
         THEN interpret_handler(requests[r], request_tests[r], collaborator)
         ELSE NotFound)

\* ------------------------------- request-scoped actions, read and save apart
\* Worker p runs get_object() and the handler (its reply is h) on its in-memory
\* instance; a call the handler refuses answers at once, the others hold the
\* instance to save.
Begin(p, op, r, h) ==
    /\ pc[p] = "idle"
    /\ IF h.outcome # "ok"
       THEN Respond(op, r, h.outcome) /\ UNCHANGED <<pc, local>>
       ELSE /\ pc' = [pc EXCEPT ![p] = "save"]
            /\ local' = [local EXCEPT ![p] =
                            [op |-> op, pk |-> r, seen |-> requests[r], inst |-> h.inst]]
            /\ UNCHANGED response
    /\ UNCHANGED <<requests, request_tests, patients, today, assigned_ids, clock, created_days>>

begin_collect(p, r, collected_samples, phlebotomy_comments) ==
    Begin(p, "collect", r,
          IF r \in DOMAIN requests
          THEN collect_handler(requests[r], request_tests[r], collected_samples, phlebotomy_comments)
          ELSE NotFound)

begin_update_results(p, r, test_id, results) ==
    Begin(p, "update_results", r,
          IF r \in DOMAIN requests
          THEN update_results_handler(requests[r], request_tests[r], test_id, results)
          ELSE NotFound)

begin_update_all_results(p, r, results) ==
    Begin(p, "update_all_results", r,
          IF r \in DOMAIN requests
          THEN update_all_results_handler(requests[r], request_tests[r], results)
          ELSE NotFound)

begin_update_comment(p, r, comments) ==
    Begin(p, "update_comment", r,
          IF r \in DOMAIN requests
          THEN update_comment_handler(requests[r], request_tests[r], comments)
          ELSE NotFound)

begin_verify(p, r, results) ==
    Begin(p, "verify", r,
          IF r \in DOMAIN requests
          THEN verify_handler(requests[r], request_tests[r], results)
          ELSE NotFound)

\* interpret up to the return of the collaborator; no lock is taken
begin_interpret(p, r, collaborator) ==
    Begin(p, "interpret", r,
          IF r \in DOMAIN requests
          THEN interpret_handler(requests[r], request_tests[r], collaborator)
          ELSE NotFound)

\* lab_request.save(): every column of the worker's instance is written
finish(p) ==
    /\ pc[p] = "save"
    /\ local[p].pk \in DOMAIN requests
    /\ requests' = save(requests, patients, local[p].pk, local[p].inst)
    /\ Respond(local[p].op, local[p].pk, "ok")
    /\ pc' = [pc EXCEPT ![p] = "idle"]
    /\ local' = [local EXCEPT ![p] = NoLocal]
    /\ UNCHANGED <<request_tests, patients, today, assigned_ids, clock, created_days>>

\* ------------------------------------------ Create, count and insert apart
\* Worker p validates, loads the patient and runs LabRequest.save up to the
\* INSERT: the lab number is computed from the rows it counts now.
create_begin(p, patient, test_ids, payment) ==
    /\ pc[p] = "idle"
    /\ clock + Cardinality({q \in Procs : pc[q] = "insert"}) < MaxCreates
    /\ LET valid == create_validation(test_ids)
       IN  IF valid # "ok"
           THEN Respond("create", 0, valid) /\ UNCHANGED <<pc, local>>
           ELSE IF patient \notin DOMAIN patients
           THEN Respond("create", 0, "DoesNotExist") /\ UNCHANGED <<pc, local>>
           ELSE /\ pc' = [pc EXCEPT ![p] = "insert"]
                /\ local' = [local EXCEPT ![p] =
                                [op |-> "create",
                                 inst |-> new_lab_request(requests, patients, today, patient,
                                                          validate_payment(payment)),
                                 test_ids |-> test_ids]]
                /\ UNCHANGED response
    /\ UNCHANGED <<requests, request_tests, patients, today, assigned_ids, clock, created_days>>

\* The INSERT (created_at is set now) and lab_request.tests.set(tests); a lab
\* number that a row already has raises IntegrityError and nothing is stored.
\* The two writes are one step here, for the specifications in which no action
\* beside a Create reads the tests; create_insert_row and create_set_tests
\* take them apart.
create_insert(p) ==
    /\ pc[p] = "insert"
    /\ LET pk == clock + 1
           inst == local[p].inst
       IN  IF ~lab_no_free(requests, inst.lab_no)
           THEN Respond("create", 0, "IntegrityError") /\ UNCHANGED <<requests, request_tests, clock, created_days>>
           ELSE /\ requests' = insert(requests, pk,
                                      [inst EXCEPT !.created_at = [day |-> today, t |-> pk]])
                /\ request_tests' = insert(request_tests, pk, Range(local[p].test_ids))
                /\ clock' = pk
                /\ created_days' = Append(created_days, today)
                /\ Respond("create", pk, "ok")
    /\ pc' = [pc EXCEPT ![p] = "idle"]
    /\ local' = [local EXCEPT ![p] = NoLocal]
    /\ UNCHANGED <<patients, today, assigned_ids>>

\* LabRequest.objects.create(...) of LabRequestCreateSerializer.create on its
\* own: the INSERT is committed and the row has no tests yet
create_insert_row(p) ==
    /\ pc[p] = "insert"
    /\ LET pk == clock + 1
           inst == local[p].inst
       IN  IF ~lab_no_free(requests, inst.lab_no)
           THEN /\ Respond("create", 0, "IntegrityError")
                /\ pc' = [pc EXCEPT ![p] = "idle"]
                /\ local' = [local EXCEPT ![p] = NoLocal]
                /\ UNCHANGED <<requests, request_tests, clock, created_days>>
           ELSE /\ requests' = insert(requests, pk,
                                      [inst EXCEPT !.created_at = [day |-> today, t |-> pk]])
                /\ request_tests' = insert(request_tests, pk, {})
                /\ clock' = pk
                /\ created_days' = Append(created_days, today)
                /\ pc' = [pc EXCEPT ![p] = "tests"]
                /\ local' = [local EXCEPT ![p] =
                                [op |-> "create", pk |-> pk, test_ids |-> local[p].test_ids]]
                /\ UNCHANGED response
    /\ UNCHANGED <<patients, today, assigned_ids>>

\* lab_request.tests.set(tests) and the response of Create
create_set_tests(p) ==
    /\ pc[p] = "tests"
    /\ request_tests' = IF local[p].pk \in DOMAIN request_tests
                        THEN [request_tests EXCEPT ![local[p].pk] = Range(local[p].test_ids)]
                        ELSE request_tests
    /\ Respond("create", local[p].pk, "ok")
    /\ pc' = [pc EXCEPT ![p] = "idle"]
    /\ local' = [local EXCEPT ![p] = NoLocal]
    /\ UNCHANGED <<requests, patients, today, assigned_ids, clock, created_days>>

\* DELETE /requests/{pk}/ of the ModelViewSet
destroy(r) ==
    /\ IF r \notin DOMAIN requests
       THEN Respond("destroy", r, "NotFound") /\ UNCHANGED <<requests, request_tests>>
       ELSE /\ requests' = delete(requests, r)
            /\ request_tests' = delete(request_tests, r)
            /\ Respond("destroy", r, "ok")
    /\ UNCHANGED <<patients, today, assigned_ids, clock, created_days, pc, local>>

\* midnight passes
advance_day ==
    /\ today < MaxDay
    /\ today' = today + 1
    /\ UNCHANGED <<requests, request_tests, patients, clock, created_days, assigned_ids,
                   response, pc, local>>

\* ------------------------------------------------ other entry points
\* LabRequest.clean rejecting every status outside the allowed next ones, the
\* unchanged status included
clean_strict(db, pk, new_status) ==
    IF pk \notin DOMAIN db
    THEN "ok"
    ELSE IF new_status \notin STATUS_TRANSITIONS[db[pk].status]
         THEN "ValidationError"
         ELSE "ok"

\* LabRequest.clean: the row of the instance's key is read again; an instance
\* without a row (LabRequest.DoesNotExist) passes
clean(db, pk, new_status) ==
    IF pk \notin DOMAIN db
    THEN "ok"
    ELSE LET old_status == db[pk].status
             allowed_next == IF old_status \in DOMAIN STATUS_TRANSITIONS
                             THEN STATUS_TRANSITIONS[old_status] ELSE {}
         IN  IF old_status # new_status /\ new_status \notin allowed_next
             THEN "ValidationError"
             ELSE "ok"

\* A caller sets the status of an instance (loaded, or new with key r) and
\* calls clean(); nothing is written
model_clean(r, new_status) ==
    /\ AllIdle
    /\ Respond("clean", r, clean(requests, r, new_status))
    /\ UNCHANGED <<requests, request_tests, patients, today, assigned_ids, clock, created_days, pc, local>>

\* setattr(instance, attr, value) for every posted field
apply_data(instance, data) ==
    [f \in DOMAIN instance |-> IF f \in DOMAIN data THEN data[f] ELSE instance[f]]

\* A caller outside the views (tests, shell, management command) changes
\* fields of a loaded LabRequest and calls LabRequest.save()
model_save(r, data) ==
    /\ AllIdle
    /\ r \in DOMAIN requests
    /\ requests' = save(requests, patients, r, apply_data(requests[r], data))
    /\ Respond("save", r, "ok")
    /\ UNCHANGED <<request_tests, patients, today, assigned_ids, clock, created_days, pc, local>>

\* PUT/PATCH /requests/{pk}/ of the ModelViewSet: LabRequestSerializer leaves
\* status, results and comments writable (status must be one of STATUS_CHOICES)
\* and ModelSerializer.update ends in instance.save()
generic_update(r, data) ==
    /\ AllIdle
    /\ IF r \notin DOMAIN requests
       THEN Respond("update", r, "NotFound") /\ UNCHANGED requests
       ELSE IF "status" \in DOMAIN data /\ data["status"] \notin STATUS_CHOICES
       THEN Respond("update", r, "ValidationError") /\ UNCHANGED requests
       ELSE /\ requests' = save(requests, patients, r, apply_data(requests[r], data))
            /\ Respond("update", r, "ok")
    /\ UNCHANGED <<request_tests, patients, today, assigned_ids, clock, created_days, pc, local>>

\* --------------------------------------------------------------- patients
\* Patient.objects.order_by('-id').first(): the greatest id in string order
last_patient(patient_table) ==
    CHOOSE id \in DOMAIN patient_table :
        \A other \in DOMAIN patient_table \ {id} : str_less(other, id)

\* the id Patient.save gives an instance that has none
new_patient_id(patient_table) ==
    IF DOMAIN patient_table = {}
    THEN format_id(1)
    ELSE format_id(parse_id(last_patient(patient_table)) + 1)

\* post_save of Patient:
\* LabRequest.objects.filter(patient=instance).update(patient_name=instance.name)
update_related_lab_request_names_skipped(db, id, name) == db

update_related_lab_request_names(db, id, name) ==
    [r \in DOMAIN db |->
        IF db[r].patient = id THEN [db[r] EXCEPT !.patient_name = name] ELSE db[r]]

\* POST /patients/ without an id: serializer.save() is Patient.objects.create,
\* an INSERT of the generated id, which the primary key refuses when a row
\* has it (IntegrityError)
patient_create(name) ==
    /\ AllIdle
    /\ Cardinality(DOMAIN patients) < MaxPatients
    /\ LET id == new_patient_id(patients)
       IN  /\ parse_id(id) <= MaxPatientNum
           /\ IF id \in DOMAIN patients
              THEN /\ Respond("patient_create", parse_id(id), "IntegrityError")
                   /\ UNCHANGED <<patients, assigned_ids>>
              ELSE /\ patients' = [i \in DOMAIN patients \cup {id} |->
                                     IF i = id THEN [name |-> name] ELSE patients[i]]
                   /\ assigned_ids' = assigned_ids \cup {id}
                   /\ Respond("patient_create", parse_id(id), "ok")
    /\ UNCHANGED <<requests, request_tests, today, clock, created_days, pc, local>>

\* PUT/PATCH /patients/{pk}/ (and POST /patients/ with an id): the row is saved
\* and the post_save signal renames the patient in its requests; calls of other
\* workers on those requests do not hold it back
patient_update(id, name) ==
    /\ IF id \notin DOMAIN patients
       THEN /\ Respond("patient_update", parse_id(id), "NotFound")
            /\ UNCHANGED <<patients, requests>>
       ELSE /\ patients' = [patients EXCEPT ![id].name = name]
            /\ requests' = update_related_lab_request_names(requests, id, name)
            /\ Respond("patient_update", parse_id(id), "ok")
    /\ UNCHANGED <<request_tests, today, assigned_ids, clock, created_days, pc, local>>

\* DELETE /patients/{pk}/: LabRequest.patient is on_delete=CASCADE
patient_destroy(id) ==
    /\ AllIdle
    /\ IF id \notin DOMAIN patients
       THEN /\ Respond("patient_destroy", parse_id(id), "NotFound")
            /\ UNCHANGED <<patients, requests, request_tests>>
       ELSE LET kept == {r \in DOMAIN requests : requests[r].patient # id}
            IN  /\ patients' = [i \in DOMAIN patients \ {id} |-> patients[i]]
                /\ requests' = [r \in kept |-> requests[r]]
                /\ request_tests' = [r \in kept |-> request_tests[r]]
                /\ Respond("patient_destroy", parse_id(id), "ok")
    /\ UNCHANGED <<today, assigned_ids, clock, created_days, pc, local>>

\* ------------------------------------------------------ specifications
PaymentExample == [totalAmount |-> 2250, discountAmount |-> 225, paidAmount |-> 2000]

Init ==
    /\ requests = << >>
    /\ request_tests = << >>
    /\ patients = [id \in {P001} |-> [name |-> "Test Patient"]]
    /\ today = 0
    /\ clock = 0
    /\ created_days = << >>
    /\ assigned_ids = DOMAIN patients
    /\ response = [op |-> "none", pk |-> 0, outcome |-> "none"]
    /\ pc = [p \in Procs |-> "idle"]
    /\ local = [p \in Procs |-> NoLocal]

WorkflowIds == 1..MaxWorkflowRequests

\* The request-scoped actions, each atomic, on requests with one test (the
\* actions of one request never read another, and one test per request keeps
\* the state space of several requests small)
CbcResults == {<< >>, <<"r1">>, <<"r2">>}
CbcMaps ==
    {<< >>} \cup {[t \in {"cbc"} |-> res] : res \in CbcResults}
        \cup {[t \in {"zzz"} |-> <<"r1">>]}

Next ==
    \/ \E patient \in {P001, P002}, test_ids \in {<< >>, <<"cbc">>, <<"zzz">>} :
          create(patient, test_ids, PaymentExample, MaxWorkflowRequests)
    \/ \E r \in WorkflowIds, cs \in {{}, {"edta", "urine"}} : collect(r, cs, "")
    \/ \E r \in WorkflowIds, t \in {"cbc", "zzz"}, res \in CbcResults : update_results(r, t, res)
    \/ \E r \in WorkflowIds, res \in CbcMaps : update_all_results(r, res)
    \/ \E r \in WorkflowIds, c \in Comments : update_comment(r, c)
    \/ \E r \in WorkflowIds, res \in CbcMaps : verify(r, res)
    \/ \E r \in WorkflowIds : interpret(r, "ok")

Spec == Init /\ [][Next]_vars

\* The same actions on one request with any tests of the catalog and every input
NextFull ==
    \/ \E patient \in {P001, P002}, test_ids \in TestIdLists :
          create(patient, test_ids, PaymentExample, 1)
    \/ \E cs \in SUBSET SampleIds, c \in Comments : collect(1, cs, c)
    \/ \E t \in TestKeys, res \in ResultLists : update_results(1, t, res)
    \/ \E res \in ResultMaps : update_all_results(1, res)
    \/ \E c \in Comments : update_comment(1, c)
    \/ \E res \in ResultMaps : verify(1, res)
    \/ \E collaborator \in CollaboratorOutcomes : interpret(1, collaborator)

SpecFull == Init /\ [][NextFull]_vars

\* The store-level entry points on their own
StoreResults == UNION {[K -> {<<"r1">>}] : K \in SUBSET LabTests}
StoreData ==
    UNION {[status : STATUS_CHOICES \cup {"ARCHIVED"}, results : StoreResults, comments : Comments],
           [status : STATUS_CHOICES \cup {"ARCHIVED"}],
           [results : StoreResults],
           [comments : Comments]}
SaveData ==
    UNION {[status : STATUS_CHOICES, results : StoreResults, comments : Comments],
           [ai_interpretation : {"AI analysis results"}]}

NextStore ==
    \/ create(P001, <<"cbc">>, PaymentExample, MaxWorkflowRequests)
    \/ \E r \in WorkflowIds, data \in SaveData : model_save(r, data)
    \/ \E r \in WorkflowIds, data \in StoreData : generic_update(r, data)

SpecStore == Init /\ [][NextStore]_vars

\* Two workers on one request, each call split into its read and its save
CbcR1 == [t \in {"cbc"} |-> <<"r1">>]
CbcR2 == [t \in {"cbc"} |-> <<"r2">>]

NextConc ==
    \/ create(P001, <<"cbc">>, PaymentExample, MaxWorkflowRequests)
    \/ \E p \in Procs, r \in WorkflowIds : begin_collect(p, r, {"edta"}, "")
    \/ \E p \in Procs, r \in WorkflowIds : begin_update_results(p, r, "cbc", <<"r2">>)
    \/ \E p \in Procs, r \in WorkflowIds, res \in {CbcR1, CbcR2} : begin_update_all_results(p, r, res)
    \/ \E p \in Procs, r \in WorkflowIds : begin_update_comment(p, r, "c1")
    \/ \E p \in Procs, r \in WorkflowIds : begin_verify(p, r, CbcR1)
    \/ \E p \in Procs : finish(p)

SpecConc == Init /\ [][NextConc]_vars

\* Two workers creating requests, with deletions and midnight
CreateIds == 1..MaxCreates

NextCreate ==
    \/ \E p \in Procs : create_begin(p, P001, <<"cbc">>, PaymentExample)
    \/ \E p \in Procs : create_insert(p)
    \/ \E r \in CreateIds : destroy(r)
    \/ advance_day

SpecCreate == Init /\ [][NextCreate]_vars

\* Creations and deletions one after the other
NextSeq ==
    \/ create(P001, <<"cbc">>, PaymentExample, MaxCreates)
    \/ \E r \in CreateIds : destroy(r)
    \/ advance_day

SpecSeq == Init /\ [][NextSeq]_vars

\* Patient tables the service can hold: none registered yet, the first
\* patient, and the 998th as the only one left after deletions
PatientNames == {"Test Patient", "New Name"}
PatientTables ==
    {[id \in S |-> [name |-> "Test Patient"]] :
        S \in {{}, {format_id(1)}, {format_id(998)}}}
PatientIds == {format_id(n) : n \in {1, 2, 999, 1000}}

InitPatient ==
    /\ requests = << >>
    /\ request_tests = << >>
    /\ patients \in PatientTables
    /\ today = 0
    /\ clock = 0
    /\ created_days = << >>
    /\ assigned_ids = DOMAIN patients
    /\ response = [op |-> "none", pk |-> 0, outcome |-> "none"]
    /\ pc = [p \in Procs |-> "idle"]
    /\ local = [p \in Procs |-> NoLocal]

NextPatient ==
    \/ \E name \in PatientNames : patient_create(name)
    \/ \E id \in PatientIds, name \in PatientNames : patient_update(id, name)
    \/ \E id \in PatientIds : patient_destroy(id)

SpecPatient == InitPatient /\ [][NextPatient]_vars

\* Create, renames of the patient and the request-scoped actions, each atomic
NextNames ==
    \/ create(P001, <<"cbc">>, PaymentExample, MaxWorkflowRequests)
    \/ \E id \in {P001, P002}, name \in PatientNames : patient_update(id, name)
    \/ \E r \in WorkflowIds : collect(r, {"edta"}, "c1")
    \/ \E r \in WorkflowIds : update_results(r, "cbc", <<"r1">>)
    \/ \E r \in WorkflowIds : update_all_results(r, CbcR2)
    \/ \E r \in WorkflowIds : update_comment(r, "c1")
    \/ \E r \in WorkflowIds : verify(r, CbcR1)
    \/ \E r \in WorkflowIds : interpret(r, "ok")

SpecNames == Init /\ [][NextNames]_vars

\* Payments a client can post: the three raw amounts, negative ones included,
\* alone or with derived fields of the client's own, one amount alone, and
\* (on an update) the empty object
Amounts == {-100, 0, 100, 1000}
RawPayments == [{"totalAmount", "discountAmount", "paidAmount"} -> Amounts]
ClientDerived == [netPayable |-> 7, balanceDue |-> 7, discountPercent |-> 7]
Payments ==
    RawPayments \cup {p @@ ClientDerived : p \in RawPayments}
                \cup {[totalAmount |-> 1000]}

\* Create with any payment, then writes of the one request: the payment by the
\* generic PUT/PATCH, a comment by update_comment
NextPayment ==
    \/ \E payment \in Payments : create(P001, <<"cbc">>, payment, 1)
    \/ \E payment \in Payments \cup {<< >>} : generic_update(1, [payment |-> payment])
    \/ \E comments \in Comments : update_comment(1, comments)

SpecPayment == Init /\ [][NextPayment]_vars

\* Collect, the two result updates and verify on one request of one or two
\* tests, with every sample set and with result maps that miss a test, name a
\* test the request does not have, or hold an empty list
ActionMaps == {m \in ResultMaps : "zzz" \in DOMAIN m => m["zzz"] = <<"r1">>}

NextActions ==
    \/ \E test_ids \in {<<"cbc">>, <<"cbc", "lipid">>} :
          create(P001, test_ids, PaymentExample, 1)
    \/ \E cs \in SUBSET SampleIds, c \in Comments : collect(1, cs, c)
    \/ \E t \in TestKeys, res \in ResultLists : update_results(1, t, res)
    \/ \E res \in ActionMaps : update_all_results(1, res)
    \/ \E res \in ActionMaps : verify(1, res)

SpecActions == Init /\ [][NextActions]_vars

\* Two workers entering the results of the two tests of one request, each
\* update_results split into its read and its save
NextLost ==
    \/ create(P001, <<"cbc", "lipid">>, PaymentExample, 1)
    \/ \E p \in Procs, t \in LabTests, res \in {<<"r1">>, <<"r2">>} :
          begin_update_results(p, 1, t, res)
    \/ \E p \in Procs : finish(p)

SpecLost == Init /\ [][NextLost]_vars

\* Create with every patient, test id list and a few payments, beside
\* deletions and renames of the patient
CreatePatients == {P001, P002}
CreatePayments == {PaymentExample, PaymentExample @@ ClientDerived, [totalAmount |-> 1000]}

CreateTestIds ==
    {<< >>, <<"cbc">>, <<"lipid", "cbc">>, <<"zzz">>, <<"cbc", "zzz">>, <<"cbc", "cbc">>}

NextCreation ==
    \/ \E patient \in CreatePatients, test_ids \in CreateTestIds, payment \in CreatePayments :
          create(patient, test_ids, payment, MaxWorkflowRequests)
    \/ \E r \in CreateIds : destroy(r)
    \/ \E name \in PatientNames : patient_update(P001, name)

SpecCreation == Init /\ [][NextCreation]_vars

\* The workflow of requests of one test, with interpret under every outcome of
\* the collaborator
NextInterpret ==
    \/ create(P001, <<"cbc">>, PaymentExample, MaxWorkflowRequests)
    \/ \E r \in WorkflowIds : collect(r, {"edta"}, "c1")
    \/ \E r \in WorkflowIds : update_results(r, "cbc", <<"r1">>)
    \/ \E r \in WorkflowIds : update_comment(r, "c1")
    \/ \E r \in WorkflowIds : verify(r, CbcR1)
    \/ \E r \in WorkflowIds, collaborator \in CollaboratorOutcomes : interpret(r, collaborator)

SpecInterpret == Init /\ [][NextInterpret]_vars

\* interpret split into its read and its save, beside the other actions of a
\* second worker on the same request
NextInterpretConc ==
    \/ create(P001, <<"cbc">>, PaymentExample, 1)
    \/ \E p \in Procs : begin_interpret(p, 1, "ok")
    \/ \E p \in Procs : begin_collect(p, 1, {"edta"}, "c1")
    \/ \E p \in Procs : begin_update_comment(p, 1, "c1")
    \/ \E p \in Procs : begin_verify(p, 1, CbcR1)
    \/ \E p \in Procs : finish(p)

SpecInterpretConc == Init /\ [][NextInterpretConc]_vars

\* The actions of SpecActions with update_comment and with Create under every
\* patient and test id list, so that each of the six operations can fail
NextFailures ==
    \/ \E patient \in CreatePatients, test_ids \in CreateTestIds :
          create(patient, test_ids, PaymentExample, 1)
    \/ \E cs \in SUBSET SampleIds, c \in Comments : collect(1, cs, c)
    \/ \E t \in TestKeys, res \in ResultLists : update_results(1, t, res)
    \/ \E res \in ActionMaps : update_all_results(1, res)
    \/ \E c \in Comments : update_comment(1, c)
    \/ \E res \in ActionMaps : verify(1, res)

SpecFailures == Init /\ [][NextFailures]_vars

\* Direct saves, which bring a request to any status, and clean() on persisted
\* requests and on an instance that has no row yet
CleanIds == 1..(MaxWorkflowRequests + 1)
CleanData ==
    UNION {[status : STATUS_CHOICES, comments : Comments],
           [results : {CbcR1}],
           [ai_interpretation : {"AI analysis results"}]}

NextClean ==
    \/ create(P001, <<"cbc">>, PaymentExample, MaxWorkflowRequests)
    \/ \E r \in WorkflowIds, data \in CleanData : model_save(r, data)
    \/ \E r \in CleanIds, new_status \in STATUS_CHOICES \cup {"ARCHIVED"} :
          model_clean(r, new_status)

SpecClean == Init /\ [][NextClean]_vars

\* A rename of the patient beside request-scoped actions that are split into
\* their read and their save
NextRename ==
    \/ create(P001, <<"cbc">>, PaymentExample, 1)
    \/ \E name \in PatientNames : patient_update(P001, name)
    \/ \E p \in Procs, c \in Comments : begin_update_comment(p, 1, c)
    \/ \E p \in Procs : begin_collect(p, 1, {"edta"}, "c1")
    \/ \E p \in Procs : finish(p)

SpecRename == Init /\ [][NextRename]_vars

\* Worker 1 creates one request in three steps (validation and lab number,
\* INSERT, tests.set) while the workers call collect and verify on it
NextWindow ==
    \/ requests = << >> /\ create_begin(1, P001, <<"cbc">>, PaymentExample)
    \/ create_insert_row(1)
    \/ create_set_tests(1)
    \/ \E p \in Procs, cs \in {{}, {"edta"}} : begin_collect(p, 1, cs, "c1")
    \/ \E p \in Procs, res \in {<< >>, CbcR1} : begin_verify(p, 1, res)
    \/ \E p \in Procs : finish(p)

SpecWindow == Init /\ [][NextWindow]_vars

\* ---------------------------------------------------------------- claims
Persisted(r) == r \in DOMAIN requests /\ r \in DOMAIN requests'

\* C1: a request-scoped action changes the persisted status only along an edge
\* of REGISTERED -> COLLECTED -> ANALYZED -> VERIFIED; any other change fails
\* with InvalidTransition and leaves the status unchanged.
C1_StatusChangesOnlyAlongChain ==
    [][\A r \in WorkflowIds :
          (Persisted(r) /\ requests'[r].status # requests[r].status)
              => requests'[r].status \in STATUS_TRANSITIONS[requests[r].status]]_vars

\* C2: under the request-scoped actions, each run atomically, the rank of the
\* persisted status never decreases, so a VERIFIED request stays VERIFIED.
C2_StatusNeverRegresses ==
    [][\A r \in WorkflowIds :
          Persisted(r) => Rank(requests'[r].status) >= Rank(requests[r].status)]_vars

C2_Witness ==
    \E r \in DOMAIN requests :
        /\ requests[r].status = "VERIFIED"
        /\ response = [op |-> "collect", pk |-> r, outcome |-> "InvalidTransition"]

\* C3: a save of an existing LabRequest (LabRequest.save or the generic update
\* endpoint) with a status that is not the allowed successor of the persisted
\* status fails with a validation error and leaves the persisted status unchanged.
C3_StoreRejectsDisallowedStatus ==
    [][\A r \in WorkflowIds :
          (Persisted(r) /\ response'.pk = r /\ response'.op \in {"save", "update"}
             /\ requests'[r].status # requests[r].status)
              => requests'[r].status \in STATUS_TRANSITIONS[requests[r].status]]_vars

\* C4: a save of a LabRequest whose persisted status is VERIFIED with other
\* results or comments fails and leaves persisted results and comments unchanged.
C4_StoreRejectsPostVerifiedEdit ==
    [][\A r \in WorkflowIds :
          (Persisted(r) /\ requests[r].status = "VERIFIED")
              => /\ requests'[r].results = requests[r].results
                 /\ requests'[r].comments = requests[r].comments]_vars

\* C5: update_comment on a VERIFIED request fails with InvalidState and leaves
\* the comments unchanged; in any other status it replaces the comments and
\* changes nothing else.
C5_UpdateCommentGuard ==
    [][\A r \in WorkflowIds :
          (Persisted(r) /\ response'.op = "update_comment" /\ response'.pk = r)
              => IF requests[r].status = "VERIFIED"
                 THEN response'.outcome = "InvalidState" /\ requests' = requests
                 ELSE \E c \in Comments : requests' = [requests EXCEPT ![r].comments = c]]_vars

\* C6: once a request is VERIFIED, every later update_results,
\* update_all_results and verify on it fails, and under the atomic
\* request-scoped actions its persisted results never change again.
C6_VerifiedResultsFrozen ==
    [][\A r \in WorkflowIds :
          (Persisted(r) /\ requests[r].status = "VERIFIED")
              => /\ requests'[r].results = requests[r].results
                 /\ (response'.pk = r /\ response'.op \in {"update_results", "update_all_results"})
                        => response'.outcome = "InvalidState"
                 /\ (response'.pk = r /\ response'.op = "verify")
                        => response'.outcome = "InvalidTransition"]_vars

C6_Witness ==
    \E r \in DOMAIN requests :
        /\ requests[r].status = "VERIFIED"
        /\ DOMAIN requests[r].results # {}
        /\ response = [op |-> "update_results", pk |-> r, outcome |-> "InvalidState"]


\* C7: the status and post-VERIFIED checks are atomic with the write: a save
\* whose read came before a verify and which lands after it leaves the status
\* VERIFIED and the verified results and comments as they are.
C7_StaleSaveKeepsVerified ==
    [][\A p \in Procs :
          (/\ pc[p] = "save" /\ pc'[p] = "idle"
           /\ local[p].pk \in DOMAIN requests
           /\ requests[local[p].pk].status = "VERIFIED"
           /\ local[p].seen.status # "VERIFIED")
              => /\ requests'[local[p].pk].status = "VERIFIED"
                 /\ requests'[local[p].pk].results = requests[local[p].pk].results
                 /\ requests'[local[p].pk].comments = requests[local[p].pk].comments]_vars

\* C8: two concurrent Create calls on one day generate different lab numbers.
C8_ConcurrentCreatesDiffer ==
    \A p, q \in Procs :
        (p # q /\ pc[p] = "insert" /\ pc[q] = "insert")
            => local[p].inst.lab_no # local[q].inst.lab_no

\* C9: no two persisted lab requests have the same lab number.
C9_LabNoUnique ==
    \A a, b \in DOMAIN requests : a # b => requests[a].lab_no # requests[b].lab_no

C9_Witness ==
    /\ Cardinality(DOMAIN requests) >= 2
    /\ response = [op |-> "create", pk |-> 0, outcome |-> "IntegrityError"]

\* C10: of two requests created on the same day, the one created later has
\* the strictly greater sequence number.
C10_LabNoMonotonePerDay ==
    \A a, b \in DOMAIN requests :
        (requests[a].created_at.day = requests[b].created_at.day
           /\ requests[a].created_at.t < requests[b].created_at.t)
            => requests[a].lab_no[2] < requests[b].lab_no[2]

\* C11: the sequence number of a request's lab number is the number of requests
\* created earlier on its creation day plus one (001 for the first of a day,
\* k for the k-th), requests created on earlier days not being counted.
C11_SequenceNumberIsOrdinalOfDay ==
    \A r \in DOMAIN requests :
        LET at == requests[r].created_at
            earlier == {i \in 1..(at.t - 1) : created_days[i] = at.day}
        IN  requests[r].lab_no = <<at.day, Cardinality(earlier) + 1>>

\* C12: a newly created patient gets the identifier whose number is the highest
\* numeric suffix among the existing identifiers plus one (1 when there is no
\* patient), whatever the digit counts of the existing identifiers.
C12_PatientIdIsHighestSuffixPlusOne ==
    [][response'.op = "patient_create" =>
        LET suffixes == {parse_id(id) : id \in DOMAIN patients}
            n == IF suffixes = {} THEN 1
                 ELSE (CHOOSE m \in suffixes : \A k \in suffixes : k <= m) + 1
        IN  /\ response'.outcome = "ok"
            /\ format_id(n) \notin DOMAIN patients
            /\ DOMAIN patients' = DOMAIN patients \cup {format_id(n)}]_vars

\* C13: after Create and any sequence of patient updates and atomic
\* request-scoped actions, the patient_name of every persisted request is the
\* current name of the patient it references.
C13_PatientNameIsCurrent ==
    \A r \in DOMAIN requests :
        /\ requests[r].patient \in DOMAIN patients
        /\ requests[r].patient_name = patients[requests[r].patient].name

\* a request saved by a request-scoped action after its patient was renamed
C13_Witness ==
    \E r \in DOMAIN requests :
        /\ requests[r].patient_name = "New Name"
        /\ requests[r].status = "COLLECTED"
        /\ response = [op |-> "collect", pk |-> r, outcome |-> "ok"]

\* C14: for all numeric amounts the stored netPayable is
\* max(0, totalAmount - discountAmount) and the stored balanceDue is
\* max(0, netPayable - paidAmount); neither is ever negative.
C14_NetAndBalanceClamped ==
    \A r \in DOMAIN requests :
        LET payment == requests[r].payment
            net == get(payment, "totalAmount") - get(payment, "discountAmount")
            due == payment["netPayable"] - get(payment, "paidAmount")
        IN  DOMAIN payment # {} =>
                /\ payment["netPayable"] = (IF net > 0 THEN net ELSE 0)
                /\ payment["balanceDue"] = (IF due > 0 THEN due ELSE 0)
                /\ payment["netPayable"] >= 0
                /\ payment["balanceDue"] >= 0

\* a created request whose discount exceeds the total and whose paid amount
\* exceeds the net payable
C14_Witness ==
    \E r \in DOMAIN requests :
        LET payment == requests[r].payment
        IN  /\ response = [op |-> "create", pk |-> r, outcome |-> "ok"]
            /\ DOMAIN payment # {}
            /\ get(payment, "discountAmount") > get(payment, "totalAmount")
            /\ get(payment, "paidAmount") > get(payment, "netPayable")
            /\ get(payment, "balanceDue") = 0

\* C15: on every write the three derived payment fields are recomputed from
\* the raw fields, whatever derived values the input carried: every persisted
\* payment has netPayable = max(0, totalAmount - discountAmount),
\* balanceDue = max(0, netPayable - paidAmount) and
\* discountPercent = discountAmount / totalAmount * 100 (0 when totalAmount <= 0).
C15_DerivedFieldsRecomputed ==
    \A r \in DOMAIN requests :
        LET payment == requests[r].payment
            total == get(payment, "totalAmount")
            discount == get(payment, "discountAmount")
        IN  DOMAIN payment # {} =>
                /\ payment["netPayable"] = Max(0, total - discount)
                /\ payment["balanceDue"] =
                       Max(0, payment["netPayable"] - get(payment, "paidAmount"))
                /\ payment["discountPercent"] =
                       (IF total > 0 THEN (discount * 100) \div total ELSE 0)

\* C16: every stored payment has non-negative totalAmount, discountAmount and
\* paidAmount, so that balanceDue <= netPayable <= totalAmount.
C16_AmountsNonNegative ==
    \A r \in DOMAIN requests :
        LET payment == requests[r].payment
        IN  DOMAIN payment # {} =>
                /\ get(payment, "totalAmount") >= 0
                /\ get(payment, "discountAmount") >= 0
                /\ get(payment, "paidAmount") >= 0
                /\ payment["balanceDue"] <= payment["netPayable"]
                /\ payment["netPayable"] <= get(payment, "totalAmount")

\* C17: collect succeeds exactly when the status is REGISTERED and the posted
\* samples contain the sample type of every test of the request (other sample
\* ids may be present); it then sets the status to COLLECTED and stores the
\* samples and the phlebotomy comments; otherwise it fails, with
\* InvalidTransition when the status is not REGISTERED and with
\* ValidationError when a sample is missing, and the request is unchanged.
C17_CollectGuardAndEffect ==
    [][\A cs \in SUBSET SampleIds, c \in Comments :
          (1 \in DOMAIN requests /\ collect(1, cs, c)) =>
              LET required == {sample_type[t] : t \in request_tests[1]}
              IN  IF requests[1].status # "REGISTERED"
                  THEN response'.outcome = "InvalidTransition" /\ requests' = requests
                  ELSE IF ~(required \subseteq cs)
                  THEN response'.outcome = "ValidationError" /\ requests' = requests
                  ELSE /\ response'.outcome = "ok"
                       /\ requests' = [requests EXCEPT ![1] =
                              [@ EXCEPT !.status = "COLLECTED",
                                        !.collected_samples = cs,
                                        !.phlebotomy_comments = c]]]_vars

\* a collect that succeeded with a sample no test of the request needs
C17_Witness ==
    /\ response = [op |-> "collect", pk |-> 1, outcome |-> "ok"]
    /\ 1 \in DOMAIN requests
    /\ requests[1].status = "COLLECTED"
    /\ request_tests[1] = {"cbc", "lipid"}
    /\ requests[1].collected_samples = SampleIds

\* C18: verify fails when the request is already VERIFIED, when the keys of
\* the posted results are not exactly the test ids of the request (a missing
\* and an extraneous key alike) and when a posted result list is empty, and a
\* failure leaves the request unchanged; otherwise the posted results become
\* the persisted results and the status becomes VERIFIED.
C18_VerifyGuardAndEffect ==
    [][\A res \in ActionMaps :
          (1 \in DOMAIN requests /\ verify(1, res)) =>
              IF \/ requests[1].status = "VERIFIED"
                 \/ DOMAIN res # request_tests[1]
                 \/ \E k \in DOMAIN res : res[k] = << >>
              THEN response'.outcome # "ok" /\ requests' = requests
              ELSE /\ response'.outcome = "ok"
                   /\ requests' = [requests EXCEPT ![1] =
                          [@ EXCEPT !.status = "VERIFIED", !.results = res]]]_vars

\* a request of two tests verified with a result list for each
C18_Witness ==
    /\ response = [op |-> "verify", pk |-> 1, outcome |-> "ok"]
    /\ 1 \in DOMAIN requests
    /\ requests[1].status = "VERIFIED"
    /\ request_tests[1] = {"cbc", "lipid"}
    /\ DOMAIN requests[1].results = {"cbc", "lipid"}

C21_NoLostUpdate ==
    [][\A p \in Procs :
          (/\ pc[p] = "save" /\ pc'[p] = "idle"
           /\ local[p].op = "update_results"
           /\ local[p].pk \in DOMAIN requests) =>
              LET seen == local[p].seen.results
                  mine == local[p].inst.results
                  written == {k \in DOMAIN mine : k \notin DOMAIN seen \/ mine[k] # seen[k]}
                  before == requests[local[p].pk].results
                  after == requests'[local[p].pk].results
              IN  \A k \in DOMAIN before \ written :
                      k \in DOMAIN after /\ after[k] = before[k]]_vars

\* C22: Create fails with ValidationError when the test id list is empty or
\* names a test that is not known; no request is then persisted and no lab
\* number is consumed.
C22_CreateRejectsBadTestIds ==
    [][\A patient \in CreatePatients, test_ids \in CreateTestIds, payment \in CreatePayments :
          (/\ \/ test_ids = << >>
              \/ \E i \in DOMAIN test_ids : test_ids[i] \notin LabTests
           /\ create(patient, test_ids, payment, MaxWorkflowRequests)) =>
              /\ response'.outcome = "ValidationError"
              /\ requests' = requests
              /\ request_tests' = request_tests
              /\ count_today(requests', today') = count_today(requests, today)]_vars

\* a rejected Create beside a persisted request
C22_Witness ==
    /\ response = [op |-> "create", pk |-> 0, outcome |-> "ValidationError"]
    /\ DOMAIN requests # {}

\* C23: Create with a patient identifier that matches no patient (and a valid
\* test id list) fails with the NotFound error outcome, returned to the caller,
\* and persists no request.
C23_CreateUnknownPatientNotFound ==
    [][\A patient \in CreatePatients, test_ids \in CreateTestIds, payment \in CreatePayments :
          (/\ patient \notin DOMAIN patients
           /\ test_ids # << >>
           /\ \A i \in DOMAIN test_ids : test_ids[i] \in LabTests
           /\ \A i, j \in DOMAIN test_ids : test_ids[i] = test_ids[j] => i = j
           /\ create(patient, test_ids, payment, MaxWorkflowRequests)) =>
              /\ response'.outcome = "NotFound"
              /\ requests' = requests
              /\ request_tests' = request_tests]_vars

\* C24: a successful Create persists exactly one new request; its status is
\* REGISTERED, its patient_name the name the patient has at that moment, its
\* tests exactly the posted test ids, its results empty, and its payment
\* carries the derived fields computed from the posted raw amounts.
C24_CreatePersistsNewRequest ==
    [][\A patient \in CreatePatients, test_ids \in CreateTestIds, payment \in CreatePayments :
          (create(patient, test_ids, payment, MaxWorkflowRequests)
              /\ response'.outcome = "ok") =>
              LET pk == response'.pk
                  total == get(payment, "totalAmount")
                  discount == get(payment, "discountAmount")
                  net == IF total - discount > 0 THEN total - discount ELSE 0
                  due == net - get(payment, "paidAmount")
              IN  /\ pk \notin DOMAIN requests
                  /\ DOMAIN requests' = DOMAIN requests \cup {pk}
                  /\ \A r \in DOMAIN requests :
                         requests'[r] = requests[r] /\ request_tests'[r] = request_tests[r]
                  /\ requests'[pk].status = "REGISTERED"
                  /\ requests'[pk].patient = patient
                  /\ requests'[pk].patient_name = patients[patient].name
                  /\ request_tests'[pk] = {test_ids[i] : i \in DOMAIN test_ids}
                  /\ requests'[pk].results = << >>
                  /\ \A k \in DOMAIN payment \ {"netPayable", "balanceDue", "discountPercent"} :
                         requests'[pk].payment[k] = payment[k]
                  /\ requests'[pk].payment["netPayable"] = net
                  /\ requests'[pk].payment["balanceDue"] = (IF due > 0 THEN due ELSE 0)
                  /\ requests'[pk].payment["discountPercent"] =
                         (IF total > 0 THEN (discount * 100) \div total ELSE 0)]_vars

\* a request of two tests created for the patient after a rename, with derived
\* fields other than those the client sent
C24_Witness ==
    \E r \in DOMAIN requests :
        /\ response = [op |-> "create", pk |-> r, outcome |-> "ok"]
        /\ requests[r].status = "REGISTERED"
        /\ requests[r].patient_name = "New Name"
        /\ request_tests[r] = {"cbc", "lipid"}
        /\ requests[r].payment["discountPercent"] = 10

\* C25: a failure of the text-generation collaborator (not configured,
\* timeout, any other error) during interpret does not reach the caller: the
\* call succeeds, ai_interpretation becomes a message explaining the failure,
\* and nothing else of the request changes.
C25_CollaboratorFailureIsAbsorbed ==
    [][\A r \in WorkflowIds, collaborator \in CollaboratorOutcomes \ {"ok"} :
          (r \in DOMAIN requests /\ interpret(r, collaborator)) =>
              /\ response'.outcome = "ok"
              /\ requests'[r].ai_interpretation \in
                     {"AI interpretation is not available.",
                      "The AI interpretation request timed out.",
                      "Unable to generate AI interpretation at this time."}
              /\ requests' = [requests EXCEPT ![r].ai_interpretation =
                                                 requests'[r].ai_interpretation]]_vars

\* an interpret that succeeded although the collaborator timed out
C25_Witness ==
    \E r \in DOMAIN requests :
        /\ response = [op |-> "interpret", pk |-> r, outcome |-> "ok"]
        /\ requests[r].ai_interpretation = "The AI interpretation request timed out."
        /\ requests[r].status = "ANALYZED"

\* C26: the AI interpretation can be set in every status, VERIFIED included:
\* interpret succeeds, ai_interpretation becomes the text it was given, and
\* status, results, comments, collected samples and the raw payment amounts
\* stay as they are.
C26_InterpretInEveryStatus ==
    [][\A r \in WorkflowIds, collaborator \in CollaboratorOutcomes :
          (r \in DOMAIN requests /\ interpret(r, collaborator)) =>
              /\ requests[r].status \in STATUS_CHOICES
              /\ response'.outcome = "ok"
              /\ requests'[r].ai_interpretation = analyze_lab_results(collaborator)
              /\ requests'[r].status = requests[r].status
              /\ requests'[r].results = requests[r].results
              /\ requests'[r].comments = requests[r].comments
              /\ requests'[r].collected_samples = requests[r].collected_samples
              /\ \A k \in {"totalAmount", "discountAmount", "paidAmount"} :
                     requests'[r].payment[k] = requests[r].payment[k]]_vars

\* a verified request given a generated interpretation
C26_Witness ==
    \E r \in DOMAIN requests :
        /\ response = [op |-> "interpret", pk |-> r, outcome |-> "ok"]
        /\ requests[r].ai_interpretation = "generated interpretation"
        /\ requests[r].status = "VERIFIED"

\* C27: the save that ends interpret writes only the interpretation: whatever
\* was written to the request between interpret's read and its save is still
\* there afterwards, the persisted request differing from the one before the
\* save in ai_interpretation only.
C27_InterpretSaveWritesOnlyInterpretation ==
    [][\A p \in Procs :
          (/\ pc[p] = "save" /\ pc'[p] = "idle"
           /\ local[p].op = "interpret"
           /\ local[p].pk \in DOMAIN requests) =>
              requests' = [requests EXCEPT ![local[p].pk].ai_interpretation =
                                               local[p].inst.ai_interpretation]]_vars

\* C28: whenever Create, collect, update_results, update_all_results,
\* update_comment or verify returns an error outcome, every persisted lab
\* request is exactly as it was before the call, and none was added.
C28_FailureChangesNothing ==
    [][(/\ response'.op \in {"create", "collect", "update_results",
                              "update_all_results", "update_comment", "verify"}
        /\ response'.outcome # "ok") =>
           /\ requests' = requests
           /\ request_tests' = request_tests]_vars

\* a verify refused for its results on a request that has results
C28_Witness ==
    /\ response = [op |-> "verify", pk |-> 1, outcome |-> "ValidationError"]
    /\ 1 \in DOMAIN requests
    /\ requests[1].status = "ANALYZED"
    /\ requests[1].results # << >>

\* C29: the workflow succeeds step by step: on a request with tests, collect
\* with the sample types of all its tests gives COLLECTED, then
\* update_all_results with a non-empty list for every test gives ANALYZED, then
\* verify with the same results gives VERIFIED, and an update_comment after
\* that fails with InvalidState.
C29_WorkflowStepByStep ==
    [][/\ 1 \in DOMAIN requests
       /\ LET status == requests[1].status
              tests == request_tests[1]
          IN  /\ \A cs \in SUBSET SampleIds, c \in Comments :
                     (/\ status = "REGISTERED"
                      /\ {sample_type[t] : t \in tests} \subseteq cs
                      /\ collect(1, cs, c)) =>
                         response'.outcome = "ok" /\ requests'[1].status = "COLLECTED"
              /\ \A res \in ActionMaps :
                     (/\ status = "COLLECTED"
                      /\ DOMAIN res = tests /\ \A t \in tests : res[t] # << >>
                      /\ update_all_results(1, res)) =>
                         response'.outcome = "ok" /\ requests'[1].status = "ANALYZED"
              /\ \A res \in ActionMaps :
                     (/\ status = "ANALYZED"
                      /\ res = requests[1].results
                      /\ DOMAIN res = tests /\ \A t \in tests : res[t] # << >>
                      /\ verify(1, res)) =>
                         response'.outcome = "ok" /\ requests'[1].status = "VERIFIED"
              /\ \A c \in Comments :
                     (status = "VERIFIED" /\ update_comment(1, c)) =>
                         response'.outcome = "InvalidState" /\ requests' = requests
       \/ 1 \notin DOMAIN requests]_vars

\* C30: LabRequest.clean on a persisted request raises a validation error
\* exactly when the in-memory status differs from the persisted one and is not
\* among STATUS_TRANSITIONS of the persisted one; it accepts an unchanged
\* status in every status, VERIFIED included, and any status on an instance
\* that is not persisted yet.
C30_CleanChecksTransition ==
    [][\A r \in CleanIds, new_status \in STATUS_CHOICES \cup {"ARCHIVED"} :
          (response'.op = "clean" /\ model_clean(r, new_status)) =>
              response'.outcome =
                  (IF /\ r \in DOMAIN requests
                      /\ new_status # requests[r].status
                      /\ new_status \notin STATUS_TRANSITIONS[requests[r].status]
                   THEN "ValidationError"
                   ELSE "ok")]_vars

\* clean() accepting the unchanged status of a verified request
C30_Witness ==
    \E r \in DOMAIN requests :
        /\ response = [op |-> "clean", pk |-> r, outcome |-> "ok"]
        /\ requests[r].status = "VERIFIED"

\* C31: sample-collection gating.  In every state reached by Create and the
\* request-scoped actions, a request whose status is COLLECTED, ANALYZED or
\* VERIFIED has collected samples that contain the sample type of every one of
\* its tests.
C31_CollectedBeforeAnalysis ==
    \A r \in DOMAIN requests :
        requests[r].status \in {"COLLECTED", "ANALYZED", "VERIFIED"}
            => {sample_type[t] : t \in request_tests[r]} \subseteq requests[r].collected_samples

\* C32: in every state reached by Create and the request-scoped actions, each
\* run without interruption, a request whose status is VERIFIED has at least
\* one test, and its results map has exactly the ids of its tests as keys,
\* with a non-empty result list for every one of them.
C32_VerifiedResultsComplete ==
    \A r \in DOMAIN requests :
        requests[r].status = "VERIFIED"
            => /\ request_tests[r] # {}
               /\ DOMAIN requests[r].results = request_tests[r]
               /\ \A t \in request_tests[r] : Len(requests[r].results[t]) > 0

\* a verified request of two tests, after a later action on it has succeeded
C32_Witness ==
    /\ 1 \in DOMAIN requests
    /\ requests[1].status = "VERIFIED"
    /\ Cardinality(request_tests[1]) = 2
    /\ response.op \in {"update_comment", "interpret"}
    /\ response.outcome = "ok"

\* C33: in every state reached by Create and update_results,
\* update_all_results and verify, each run without interruption, every key of
\* a request's persisted results map is the id of one of that request's tests.
C33_ResultKeysAreTests ==
    \A r \in DOMAIN requests : DOMAIN requests[r].results \subseteq request_tests[r]

\* a request of two tests that holds the result of one of them, entered by
\* update_results
C33_Witness ==
    /\ 1 \in DOMAIN requests
    /\ request_tests[1] = {"cbc", "lipid"}
    /\ DOMAIN requests[1].results = {"lipid"}
    /\ response = [op |-> "update_results", pk |-> 1, outcome |-> "ok"]

\* C34: Create is always available for valid input.  In every reachable
\* state, also after earlier requests of the day were deleted, a Create with an
\* existing patient and a non-empty list of distinct known test ids, run with
\* no other Create beside it, succeeds; it never fails because its lab number
\* is the lab number of an existing request.
C34_CreateAlwaysAvailable ==
    [][(response'.op = "create" /\ create(P001, <<"cbc">>, PaymentExample, MaxCreates))
          => response'.outcome = "ok"]_vars

\* C35: a patient identifier is never assigned twice.  After any sequence of
\* patient creations and deletions, a creation never gives the new patient an
\* identifier that an earlier patient, existing or deleted, was given, and it
\* never overwrites the record of an existing patient.
C35_PatientIdNeverReused ==
    [][(\E name \in PatientNames : patient_create(name))
          => /\ \A id \in DOMAIN patients' \ DOMAIN patients : id \notin assigned_ids
             /\ \A id \in DOMAIN patients :
                   id \in DOMAIN patients' /\ patients'[id] = patients[id]]_vars

\* C36: a stale in-memory copy never overwrites a propagated patient name.
\* When a Patient update, which renames the patient in all its requests,
\* completes between the read and the save of a request-scoped action on one
\* of them, the request's persisted patient_name is the patient's current name
\* once both operations have finished.
C36_RenameSurvivesStaleSave ==
    AllIdle =>
        \A r \in DOMAIN requests :
            requests[r].patient \in DOMAIN patients
                => requests[r].patient_name = patients[requests[r].patient].name

\* C37: a request is never visible to other operations without its tests.
\* Under every interleaving of a Create, which inserts the request and then
\* attaches its tests, with a collect or verify on the new request, collect
\* never succeeds with samples that do not cover the tests the Create was
\* given, and verify never succeeds with an empty results map.
C37_NoActionOnRequestWithoutTests ==
    [][\A p \in Procs :
          (pc[p] = "save" /\ finish(p))
              => LET pk == local[p].pk
                     given == IF \E q \in Procs : pc[q] = "tests" /\ local[q].pk = pk
                              THEN UNION {Range(local[q].test_ids) :
                                             q \in {w \in Procs : pc[w] = "tests" /\ local[w].pk = pk}}
                              ELSE request_tests[pk]
                 IN  /\ local[p].op = "collect"
                        => {sample_type[t] : t \in given} \subseteq requests'[pk].collected_samples
                     /\ local[p].op = "verify"
                        => DOMAIN requests'[pk].results # {}]_vars

\* C38: Create accepts every list of known test ids.  A Create (of an existing
\* patient) whose test id list is not empty and holds only ids of existing
\* tests succeeds, also when the list repeats an id, and the tests of the
\* created request are the distinct ids of the list.
C38_CreateAcceptsRepeatedTestIds ==
    [][\A patient \in CreatePatients, test_ids \in CreateTestIds :
          (/\ patient \in DOMAIN patients
           /\ Len(test_ids) > 0
           /\ Range(test_ids) \subseteq LabTests
           /\ create(patient, test_ids, PaymentExample, 1))
              => /\ response'.outcome = "ok"
                 /\ response'.pk \in DOMAIN request_tests'
                 /\ request_tests'[response'.pk] = Range(test_ids)]_vars

====
